---------------------------- MODULE Spec2Model ----------------------------
(***************************************************************************)
(* TeaFi auto bot (src/index.js): the run/stop lifecycle, the cycle        *)
(* scheduler runDailyActivity, the swap pipeline performSwap and the nonce *)
(* cache getNextNonce.                                                     *)
(*                                                                         *)
(* Granularity.  Node runs one macrotask (a user key, a timer, a network   *)
(* response) and then every promise continuation it unblocked, before the  *)
(* next macrotask.  One action of this module is one macrotask together    *)
(* with the synchronous continuation of the async function it resumes, up  *)
(* to that function's next real suspension (a network await or a timer).   *)
(* Wall-clock time is not modelled: timers fire in any order.              *)
(* Log lines and the log-only flag hasLoggedSleepInterrupt are left out,    *)
(* and so is getProvider's retry path (the provider's constructor          *)
(* throwing), which starts sleeps nobody awaits.                           *)
(*                                                                         *)
(* Five specifications.  Spec is the lifecycle: up to MaxLoops invocations *)
(* of runDailyActivity in flight, the node's answers free inputs and nonce *)
(* values not recorded (no flag reads them).  NonceSpec records            *)
(* nonceTracker and the chain's transaction counts, with one invocation in *)
(* flight; SharedSpec does so for two invocations of one account, each     *)
(* swap followed up to its submission.  HistorySpec is the lifecycle with  *)
(* well-formed keys, each invocation remembering whether the Stop handler  *)
(* ran while it was in flight.  FnSpec follows a single call of            *)
(* getNextNonce, getFeeParams or monitorTransaction from inputs drawn in   *)
(* the initial state, monitorTransaction with a clock in milliseconds, and *)
(* the configuration through form submissions, saveConfig and loadConfig.  *)
(***************************************************************************)
EXTENDS Integers, Sequences, FiniteSets, TLC

\* ------------------------------------------------------------------ bounds
MaxAccounts == 2
\* dailyActivityConfig.swapRepetitions
SwapRepetitions == 3
\* runDailyActivity invocations that may be in flight together
MaxLoops == 2
\* largest transaction count of an account on the chain
MaxNonce == 2
\* next-cycle timers whose handle was overwritten while still pending
MaxLost == 1
\* 1 s stop-check intervals pending together
MaxStopChecks == 1

NoRecord == -1

\* a field an answer does not carry (null or undefined)
Absent == NoRecord

VARIABLES
    accounts,               \* the loaded key list: "ok" or "bad" (not a private key)
    activityRunning,
    isCycleRunning,
    shouldStop,
    dailyActivityInterval,  \* "null", or the last handle: "pending" or "fired"
    lostTimers,             \* pending next-cycle timers no variable refers to
    activeProcesses,
    menuItems,              \* first item of menuBox: "Start" or "Stop"
    stopChecks,             \* pending stop-check intervals set by the Stop handler
    finallyChecks,          \* pending stop-check intervals set by runDailyActivity's finally
    loops,                  \* the runDailyActivity invocations in flight
    nonceTracker,           \* key -> last issued nonce, NoRecord when absent
    chainCount,             \* account -> the chain's pending transaction count
    pendingSeen,            \* history: key -> the count its cached record was derived from
    issuedHigh,             \* history: key -> the highest nonce issued in the current run
    call,                   \* a single call of one function, for the function contracts
    lastOp                  \* the handler that ran last and what it did

vars == <<accounts, activityRunning, isCycleRunning, shouldStop, dailyActivityInterval,
          lostTimers, activeProcesses, menuItems, stopChecks, finallyChecks, loops,
          nonceTracker, chainCount, pendingSeen, issuedHigh, call, lastOp>>

AccountIds == 0 .. (MaxAccounts - 1)
LoopIds == 1 .. MaxLoops

\* nonceKey: `${TEAFI_CHAIN_ID}_${walletAddress}`.  checkAndApproveToken passes
\* wallet.address (checksummed), performSwap passes wallet.address.toLowerCase().
Keys == AccountIds \X {"checksum", "lower"}

Max(a, b) == IF a > b THEN a ELSE b

\* ------------------------------------------------------------ getNextNonce
\* nonceTracker[nonceKey] || (pendingNonce - 1n): a BigInt 0n is falsy
LastUsedNonce(cached, pendingNonce) ==
    IF cached = NoRecord \/ cached = 0 THEN pendingNonce - 1 ELSE cached

NextNonce(cached, pendingNonce) ==
    LET lastUsedNonce == LastUsedNonce(cached, pendingNonce)
    IN  IF pendingNonce > lastUsedNonce + 1 THEN pendingNonce ELSE lastUsedNonce + 1

\* ------------------------------------------------------------------- state
\* no function-level call is being followed
NoCall == [fn |-> "none"]

\* const swapDirections = [{from: "USDC", to: "USDT"}, {from: "USDT", to: "USDC"}]
SwapDirections == <<"USDC_USDT", "USDT_USDC">>

\* an invocation's locals: accountIndex, swapCount, directionIndex and
\* currentDirection, the nonce its pending submission carries, and two history
\* fields: the account it was at when a stop request caught it in a delay, and
\* whether the Stop handler ran while it was in flight
IdleLoop == [pc |-> "none", acct |-> 0, swap |-> 0, nonce |-> NoRecord, stopAt |-> -1,
             dir |-> 0, direction |-> "none", stopSeen |-> FALSE]

KeyLists == UNION {[0 .. (n - 1) -> {"ok", "bad"}] : n \in 0 .. MaxAccounts}

NumAccounts == Cardinality(DOMAIN accounts)

Init ==
    /\ accounts \in KeyLists
    /\ activityRunning = FALSE
    /\ isCycleRunning = FALSE
    /\ shouldStop = FALSE
    /\ dailyActivityInterval = "null"
    /\ lostTimers = 0
    /\ activeProcesses = 0
    /\ menuItems = "Start"
    /\ stopChecks = 0
    /\ finallyChecks = 0
    /\ loops = [l \in LoopIds |-> IdleLoop]
    /\ nonceTracker = [k \in Keys |-> NoRecord]
    /\ chainCount \in [AccountIds -> 0 .. 1]
    /\ pendingSeen = [k \in Keys |-> NoRecord]
    /\ issuedHigh = [k \in Keys |-> NoRecord]
    /\ call = NoCall
    /\ lastOp = "init"


\* ------------------------------------------------- the running continuation
\* What one macrotask's synchronous continuation reads and writes: the globals
\* and the resumed invocation's own position (me).
Cur(l, op) ==
    [ap |-> activeProcesses, stop |-> shouldStop, running |-> activityRunning,
     cycle |-> isCycleRunning, interval |-> dailyActivityInterval, lost |-> lostTimers,
     menu |-> menuItems, fchecks |-> finallyChecks, tracker |-> nonceTracker,
     chain |-> chainCount, seen |-> pendingSeen, high |-> issuedHigh, me |-> loops[l],
     op |-> op]

\* updateMenu
MenuFor(cycle) == IF cycle THEN "Stop" ELSE "Start"

EmptyTracker == [k \in Keys |-> NoRecord]

\* a teardown that does not wait for the counter
DrainedIgnored(ap) == TRUE

\* if (activeProcesses <= 0): the test every teardown is guarded by
Drained(ap) == ap <= 0

\* runDailyActivity, finally block, reached with the stop flag set
FinallyStopped(c) ==
    IF Drained(c.ap)
    THEN [c EXCEPT !.interval = "null", !.running = FALSE, !.cycle = FALSE,
                   !.stop = FALSE, !.ap = 0, !.menu = MenuFor(FALSE),
                   !.op = "finallyTeardown"]
    ELSE [c EXCEPT !.fchecks = @ + 1, !.op = "finallyWait"]

\* runDailyActivity, finally block; the invocation ends here
FinallyBlock(c) ==
    LET d == IF c.stop
             THEN FinallyStopped(c)
             ELSE LET cyc == (c.ap > 0 \/ c.interval # "null")
                  IN  [c EXCEPT !.running = FALSE, !.cycle = cyc, !.menu = MenuFor(cyc),
                                !.op = IF c.op = "failed" THEN "finallyFailed"
                                       ELSE "finallyDone"]
    IN  [d EXCEPT !.tracker = EmptyTracker, !.seen = EmptyTracker, !.high = EmptyTracker,
                  !.me = IdleLoop]

\* if (!shouldStop && activeProcesses <= 0) dailyActivityInterval = setTimeout(...)
ScheduleNext(c) ==
    IF ~c.stop /\ c.ap <= 0
    THEN [c EXCEPT !.lost = IF c.interval = "pending" THEN @ + 1 ELSE @,
                   !.interval = "pending"]
    ELSE c

LoopExit(c) == FinallyBlock(ScheduleNext(c))

\* an exception reaching runDailyActivity's catch
CycleFailed(c) == FinallyBlock([c EXCEPT !.op = "failed"])

\* the account loop's body up to its first await: new ethers.Wallet(privateKey)
\* throws on a malformed key, then performCheckIn sends the status query
ProcessAccount(c, a) ==
    IF accounts[a] = "bad"
    THEN CycleFailed(c)
    ELSE [c EXCEPT !.me = [pc |-> "checkInStatus", acct |-> a, swap |-> 0,
                           nonce |-> NoRecord, stopAt |-> c.me.stopAt,
                           dir |-> 0, direction |-> "none",
                           stopSeen |-> c.me.stopSeen]]

\* for (accountIndex; accountIndex < accounts.length && !shouldStop; ...)
AccountLoop(c, a) ==
    IF a < NumAccounts /\ ~c.stop THEN ProcessAccount(c, a) ELSE LoopExit(c)

\* sleep(ms) entered with shouldStop clear: activeProcesses++ and suspend
SleepEnter(c, pc) == [c EXCEPT !.ap = @ + 1, !.me.pc = pc]

\* a sleep that returns without giving its count back
SleepExitNoDecrement(c) == c

\* sleep's finally: activeProcesses = Math.max(0, activeProcesses - 1)
SleepExit(c) == [c EXCEPT !.ap = Max(0, @ - 1)]

\* after the swap loop of an account: the 10 s delay, or on to the next account
AfterSwaps(c) ==
    IF c.me.acct < NumAccounts - 1 /\ ~c.stop
    THEN SleepEnter(c, "acctDelay")
    ELSE AccountLoop(c, c.me.acct + 1)

\* a scheduler that swaps in the first direction every time
DirectionAtFirst(directionIndex) == SwapDirections[1]

\* swapDirections[directionIndex % swapDirections.length]
DirectionAt(directionIndex) ==
    SwapDirections[(directionIndex % Len(SwapDirections)) + 1]

\* for (swapCount; swapCount < swapRepetitions && !shouldStop; ...): the direction
\* is chosen and performSwap runs to its first await, tokenContract.balanceOf
SwapLoop(c, s) ==
    IF s < SwapRepetitions /\ ~c.stop
    THEN [c EXCEPT !.me.swap = s, !.me.pc = "balanceOf", !.me.nonce = NoRecord,
                   !.me.direction = DirectionAt(c.me.dir)]
    ELSE AfterSwaps(c)

\* after updateWallets: directionIndex++, then the inter-swap delay or the next
\* repetition
AfterUpdateWallets(c) ==
    LET d == [c EXCEPT !.me.dir = @ + 1]
    IN  IF d.me.swap < SwapRepetitions - 1 /\ ~d.stop
        THEN SleepEnter(d, "swapDelay")
        ELSE SwapLoop(d, d.me.swap + 1)

\* a scheduler whose swap attempts are not wrapped in try/catch
SwapEndedFatal(c, op) == CycleFailed([c EXCEPT !.me.nonce = NoRecord])

\* performSwap returned or threw: catch logs, finally awaits updateWallets
SwapEnded(c, op) == [c EXCEPT !.me.pc = "updateWallets", !.me.nonce = NoRecord, !.op = op]

\* runDailyActivity from its entry to its first await
RunDailyActivity(c) ==
    IF NumAccounts = 0
    THEN [c EXCEPT !.op = "noAccounts", !.me = IdleLoop]
    ELSE AccountLoop([c EXCEPT !.running = TRUE, !.cycle = TRUE, !.stop = FALSE,
                               !.ap = Max(0, @), !.menu = MenuFor(TRUE)], 0)

\* The continuation's writes become the next state.
Commit(l, c) ==
    /\ c.lost <= MaxLost
    /\ c.fchecks <= MaxStopChecks
    /\ activeProcesses' = c.ap
    /\ shouldStop' = c.stop
    /\ activityRunning' = c.running
    /\ isCycleRunning' = c.cycle
    /\ dailyActivityInterval' = c.interval
    /\ lostTimers' = c.lost
    /\ menuItems' = c.menu
    /\ finallyChecks' = c.fchecks
    /\ nonceTracker' = c.tracker
    /\ chainCount' = c.chain
    /\ pendingSeen' = c.seen
    /\ issuedHigh' = c.high
    /\ loops' = [loops EXCEPT ![l] = c.me]
    /\ lastOp' = c.op
    /\ UNCHANGED <<accounts, stopChecks, call>>

\* the lowest slot of S holding no invocation
FreeLoop(l, S) == loops[l].pc = "none" /\ \A k \in S : k < l => loops[k].pc # "none"

\* ---------------------------------------------------------------- handlers
\* menuBox "Start Auto Daily Activity"
StartActivity(S) ==
    /\ menuItems = "Start"
    /\ IF isCycleRunning
       THEN /\ lastOp' = "startRejected"
            /\ UNCHANGED <<accounts, activityRunning, isCycleRunning, shouldStop,
                           dailyActivityInterval, lostTimers, activeProcesses, menuItems,
                           stopChecks, finallyChecks, loops, nonceTracker, chainCount,
                           pendingSeen, issuedHigh, call>>
       ELSE \E l \in S :
                /\ FreeLoop(l, S)
                /\ Commit(l, RunDailyActivity(Cur(l, "start")))

\* the next-cycle timer: setTimeout(runDailyActivity, loopHours * 3600000)
TimerFire(S) ==
    \E l \in S :
        /\ FreeLoop(l, S)
        /\ \/ /\ dailyActivityInterval = "pending"
              /\ Commit(l, RunDailyActivity([Cur(l, "timer") EXCEPT !.interval = "fired"]))
           \/ /\ lostTimers > 0
              /\ Commit(l, RunDailyActivity([Cur(l, "timer") EXCEPT !.lost = @ - 1]))


DelayPcs == {"swapDelay", "acctDelay", "pollSleep"}


\* the flags cleared by the Stop handler's teardown, immediate or from its interval
StopTeardown ==
    /\ activityRunning' = FALSE
    /\ isCycleRunning' = FALSE
    /\ shouldStop' = FALSE
    /\ menuItems' = MenuFor(FALSE)

\* history, kept when hist: the Stop handler ran while this invocation was in flight
StopSeen(me, hist) ==
    IF hist /\ me.pc # "none" THEN [me EXCEPT !.stopSeen = TRUE] ELSE me

\* menuBox "Stop Activity"
StopActivity(hist) ==
    /\ menuItems = "Stop"
    /\ dailyActivityInterval' = "null"
    /\ IF Drained(activeProcesses)
       THEN /\ StopTeardown
            /\ lastOp' = "stopTeardown"
            /\ loops' = [l \in LoopIds |-> StopSeen(loops[l], hist)]
            /\ UNCHANGED stopChecks
       ELSE /\ stopChecks < MaxStopChecks
            /\ shouldStop' = TRUE
            /\ stopChecks' = stopChecks + 1
            /\ loops' = [l \in LoopIds |->
                            IF loops[l].pc \in DelayPcs /\ loops[l].stopAt = -1
                            THEN [StopSeen(loops[l], hist) EXCEPT !.stopAt = loops[l].acct]
                            ELSE StopSeen(loops[l], hist)]
            /\ lastOp' = "stopRequested"
            /\ UNCHANGED <<activityRunning, isCycleRunning, menuItems>>
    /\ UNCHANGED <<accounts, lostTimers, activeProcesses, finallyChecks, nonceTracker,
                   chainCount, pendingSeen, issuedHigh, call>>

\* the Stop handler's setInterval(..., 1000) callback
StopCheckTick ==
    /\ stopChecks > 0
    /\ IF Drained(activeProcesses)
       THEN /\ stopChecks' = stopChecks - 1
            /\ StopTeardown
            /\ activeProcesses' = 0
            /\ lastOp' = "stopCheckTeardown"
       ELSE /\ lastOp' = "stopCheckWait"
            /\ UNCHANGED <<stopChecks, activityRunning, isCycleRunning, shouldStop,
                           menuItems, activeProcesses>>
    /\ UNCHANGED <<accounts, dailyActivityInterval, lostTimers, finallyChecks, loops,
                   nonceTracker, chainCount, pendingSeen, issuedHigh, call>>

\* the setInterval(..., 1000) callback set by runDailyActivity's finally block
FinallyCheckTick ==
    /\ finallyChecks > 0
    /\ IF Drained(activeProcesses)
       THEN /\ finallyChecks' = finallyChecks - 1
            /\ dailyActivityInterval' = "null"
            /\ StopTeardown
            /\ activeProcesses' = 0
            /\ lastOp' = "finallyCheckTeardown"
       ELSE /\ lastOp' = "finallyCheckWait"
            /\ UNCHANGED <<finallyChecks, dailyActivityInterval, activityRunning,
                           isCycleRunning, shouldStop, menuItems, activeProcesses>>
    /\ UNCHANGED <<accounts, lostTimers, stopChecks, loops, nonceTracker, chainCount,
                   pendingSeen, issuedHigh, call>>

\* ----------------------------------------------------------- performCheckIn
\* calendar days the status and the clock can name
Days == 0 .. 1

\* lastDateStr === todayDateStr: both dates fall on the same local calendar day
SameDay(lastCheckIn, today) == lastCheckIn = today

\* a performCheckIn that submits whatever the status says
AfterStatusAlwaysPosts(c, failed, lastCheckIn, today) ==
    [c EXCEPT !.me.pc = "checkInPost",
              !.op = IF failed THEN "statusFailed"
                     ELSE IF lastCheckIn # Absent /\ SameDay(lastCheckIn, today)
                          THEN "statusSameDay" ELSE "statusDue"]

\* performCheckIn after the status query: a failure goes to the catch, a
\* lastCheckIn of today returns, anything else sends the check-in; performCheckIn
\* returning, the scheduler enters the swap loop
AfterStatus(c, failed, lastCheckIn, today) ==
    IF failed THEN SwapLoop([c EXCEPT !.op = "statusFailed"], 0)
    ELSE IF lastCheckIn # Absent /\ SameDay(lastCheckIn, today)
         THEN SwapLoop([c EXCEPT !.op = "statusSameDay"], 0)
         ELSE [c EXCEPT !.me.pc = "checkInPost", !.op = "statusDue"]

\* the status query answers or fails
CheckInStatus(l) ==
    /\ loops[l].pc = "checkInStatus"
    /\ \E failed \in BOOLEAN, lastCheckIn \in {Absent} \cup Days, today \in Days :
          Commit(l, AfterStatus(Cur(l, "step"), failed, lastCheckIn, today))

\* the check-in submission answers (success, failure and "already checked in"
\* all return to the scheduler)
CheckInPost(l) ==
    /\ loops[l].pc = "checkInPost"
    /\ Commit(l, SwapLoop(Cur(l, "step"), 0))

\* -------------------------------------------------------------- performSwap
KeyOf(c, form) == <<c.me.acct, form>>

\* a getNextNonce that checks nothing before it reads the count
NonceGateOpen(stop, valid) == "query"

\* getNextNonce before its await: "Process stopped" when shouldStop, "Invalid
\* wallet address" when !ethers.isAddress(walletAddress), else the count is read
NonceGate(stop, valid) ==
    IF stop THEN "stopped" ELSE IF ~valid THEN "invalidAddress" ELSE "query"

\* getNextNonce up to its await, called by the pipeline: wallet.address and its
\* lowercase form are both addresses
NonceEntry(c, pc) ==
    IF NonceGate(c.stop, TRUE) = "query"
    THEN [c EXCEPT !.me.pc = pc, !.op = "step"]
    ELSE SwapEnded(c, "swapRaised")

\* getNextNonce after provider.getTransactionCount(address, "pending") answered
NonceAllocate(c, form, pc) ==
    LET key == KeyOf(c, form)
        nextNonce == NextNonce(c.tracker[key], c.chain[c.me.acct])
    IN  [c EXCEPT !.tracker[key] = nextNonce, !.seen[key] = c.chain[c.me.acct],
                  !.high[key] = Max(@, nextNonce),
                  !.me.nonce = nextNonce, !.me.pc = pc, !.op = "nonceIssued"]

\* the same step where nonce values are not recorded
NonceTaken(c, pc) == [c EXCEPT !.me.pc = pc, !.op = "nonceIssued"]

Allocate(c, form, pc, tracked) ==
    IF tracked THEN NonceAllocate(c, form, pc) ELSE NonceTaken(c, pc)

\* what the node can answer to a submission carrying this nonce
SubmitOutcomes(nonce, count) ==
    {"otherErr"}
    \cup (IF nonce # count THEN {"nonceErr"} ELSE {})
    \cup (IF nonce >= count /\ count < MaxNonce THEN {"ok"} ELSE {})

\* the chain after accepting a transaction: one with the next nonce is executable
Accepted(c, tracked) ==
    IF tracked /\ c.me.nonce = c.chain[c.me.acct]
    THEN [c EXCEPT !.chain[c.me.acct] = @ + 1]
    ELSE c

Answers(l, tracked) ==
    IF tracked THEN SubmitOutcomes(loops[l].nonce, chainCount[loops[l].acct])
    ELSE {"ok", "nonceErr", "otherErr"}

Step(c, pc) == [c EXCEPT !.me.pc = pc, !.op = "step"]

\* a performSwap that asks for the quote whatever the balance
AfterBalanceUnchecked(c, r) ==
    [Step(c, "quote") EXCEPT !.op = IF r = "insufficient" THEN "insufficientBalance"
                                    ELSE "step"]

\* performSwap after tokenContract.balanceOf: the read failed, the balance is
\* below amountIn (throw), or getSwapQuote is called
AfterBalance(c, r) ==
    CASE r = "ok" -> Step(c, "quote")
      [] r = "insufficient" -> SwapEnded(c, "insufficientBalance")
      [] OTHER -> SwapEnded(c, "swapRaised")

BalanceOf(l) ==
    /\ loops[l].pc = "balanceOf"
    /\ \E r \in {"throw", "insufficient", "ok"} :
          Commit(l, AfterBalance(Cur(l, "step"), r))

Quote(l) ==
    /\ loops[l].pc = "quote"
    /\ \E r \in {"throw", "ok"} :
          LET c == Cur(l, "step")
          IN  Commit(l, IF r = "ok" THEN Step(c, "feeData") ELSE SwapEnded(c, "swapRaised"))

\* getFeeParams returns on every answer; checkAndApproveToken reads the allowance
FeeData(l) ==
    /\ loops[l].pc = "feeData"
    /\ Commit(l, Step(Cur(l, "step"), "allowance"))

Allowance(l) ==
    /\ loops[l].pc = "allowance"
    /\ \E r \in {"throw", "enough", "low"} :
          LET c == Cur(l, "step")
          IN  Commit(l, CASE r = "throw" -> SwapEnded(c, "swapRaised")
                          [] r = "enough" ->
                               [Step(c, "gasBalance") EXCEPT !.op = "allowanceEnough"]
                          [] r = "low" -> NonceEntry(c, "approveCount"))

ApproveCount(l, tracked) ==
    /\ loops[l].pc = "approveCount"
    /\ \E r \in {"throw", "ok"} :
          LET c == Cur(l, "step")
          IN  Commit(l, IF r = "ok" THEN Allocate(c, "checksum", "approveSend", tracked)
                        ELSE SwapEnded(c, "swapRaised"))

\* tokenContract.approve(...) failed: checkAndApproveToken has no catch and
\* performSwap calls it outside its own, so the error reaches the scheduler with
\* nonceTracker as it was
ApproveFailed(c, r) ==
    SwapEnded(c, IF r = "nonceErr" THEN "approveNonceErr" ELSE "swapRaised")

ApproveSend(l, tracked) ==
    /\ loops[l].pc = "approveSend"
    /\ \E r \in Answers(l, tracked) :
          LET c == Cur(l, "step")
          IN  Commit(l, IF r = "ok" THEN Step(Accepted(c, tracked), "approveWait")
                        ELSE ApproveFailed(c, r))

ApproveWait(l) ==
    /\ loops[l].pc = "approveWait"
    /\ \E r \in {"throw", "ok"} :
          LET c == Cur(l, "step")
          IN  Commit(l, IF r = "ok" THEN Step(c, "gasBalance") ELSE SwapEnded(c, "swapRaised"))

\* a performSwap that goes on to the nonce whatever the native balance
AfterGasBalanceUnchecked(c, r) ==
    CASE r = "ok" -> NonceEntry(c, "swapNonce")
      [] r = "insufficient" ->
           [NonceEntry(c, "swapNonce") EXCEPT !.op = "insufficientGas"]
      [] OTHER -> SwapEnded(c, "swapRaised")

\* performSwap after provider.getBalance: the read failed, the balance is below
\* the estimated gas cost (throw), or getNextNonce is called for the swap
AfterGasBalance(c, r) ==
    CASE r = "ok" -> NonceEntry(c, "swapNonce")
      [] r = "insufficient" -> SwapEnded(c, "insufficientGas")
      [] OTHER -> SwapEnded(c, "swapRaised")

GasBalance(l) ==
    /\ loops[l].pc = "gasBalance"
    /\ \E r \in {"throw", "insufficient", "ok"} :
          Commit(l, AfterGasBalance(Cur(l, "step"), r))

SwapNonce(l, tracked) ==
    /\ loops[l].pc = "swapNonce"
    /\ \E r \in {"throw", "ok"} :
          LET c == Cur(l, "step")
          IN  Commit(l, IF r = "ok" THEN Allocate(c, "lower", "sendTx", tracked)
                        ELSE SwapEnded(c, "swapRaised"))

\* a catch that rethrows without touching the cache
SendFailedKeepsRecord(c, r) ==
    SwapEnded(c, IF r = "nonceErr" THEN "sendNonceErr" ELSE "swapRaised")

\* the catch around wallet.sendTransaction: a message naming the nonce deletes
\* nonceTracker[`${TEAFI_CHAIN_ID}_${address}`], address being the lowercase form
SendFailed(c, r) ==
    IF r = "nonceErr"
    THEN SwapEnded([c EXCEPT !.tracker[KeyOf(c, "lower")] = NoRecord,
                             !.seen[KeyOf(c, "lower")] = NoRecord], "sendNonceErr")
    ELSE SwapEnded(c, "swapRaised")

SendTx(l, tracked) ==
    /\ loops[l].pc = "sendTx"
    /\ \E r \in Answers(l, tracked) :
          LET c == Cur(l, "step")
          IN  Commit(l, IF r = "ok" THEN Step(Accepted(c, tracked), "receipt") ELSE SendFailed(c, r))

\* monitorTransaction back at the top of its loop: the elapsed-time test
MonitorLoop(c, timedOut) ==
    IF timedOut THEN SwapEnded(c, "confirmTimeout") ELSE Step(c, "receipt")

\* monitorTransaction's await sleep(5000): sleep returns at once when shouldStop
MonitorSleep(c, timedOut) ==
    IF c.stop THEN MonitorLoop(c, timedOut) ELSE SleepEnter(c, "pollSleep")

\* a performSwap that reports whatever the receipt says
AfterReceiptAlwaysReports(c, r, timedOut) ==
    CASE r = "none" -> MonitorSleep(c, timedOut)
      [] r = "throw" -> SwapEnded(c, "pollFailed")
      [] r = "confirmed" -> [Step(c, "report") EXCEPT !.op = "receiptValid"]
      [] r = "invalid" -> [Step(c, "report") EXCEPT !.op = "receiptInvalid"]
      [] r = "reverted" -> [Step(c, "report") EXCEPT !.op = "receiptReverted"]

\* provider.getTransactionReceipt answered: no block number yet (monitorTransaction
\* sleeps), the poll threw, or monitorTransaction returns the receipt and
\* performSwap tests it: no hash (invalid), status 0 (reverted), else the usage
\* report is posted
AfterReceipt(c, r, timedOut) ==
    CASE r = "none" -> MonitorSleep(c, timedOut)
      [] r = "throw" -> SwapEnded(c, "pollFailed")
      [] r = "confirmed" -> [Step(c, "report") EXCEPT !.op = "receiptValid"]
      [] r = "invalid" -> SwapEnded(c, "receiptInvalid")
      [] r = "reverted" -> SwapEnded(c, "receiptReverted")

Receipt(l) ==
    /\ loops[l].pc = "receipt"
    /\ \E r \in {"throw", "confirmed", "invalid", "reverted", "none"}, timedOut \in BOOLEAN :
          /\ r # "none" => ~timedOut
          /\ Commit(l, AfterReceipt(Cur(l, "step"), r, timedOut))

\* ------------------------------------------------------------------- sleep
\* the caller of sleep continues: the scheduler after its two delays,
\* monitorTransaction after its poll wait
Resume(c, timedOut) ==
    CASE c.me.pc = "swapDelay" -> SwapLoop(c, c.me.swap + 1)
      [] c.me.pc = "acctDelay" -> AccountLoop(c, c.me.acct + 1)
      [] c.me.pc = "pollSleep" -> MonitorLoop(c, timedOut)

\* sleep's setTimeout callback: resolve
SleepTimeout(l) ==
    /\ loops[l].pc \in DelayPcs
    /\ \E timedOut \in BOOLEAN :
          /\ timedOut => loops[l].pc = "pollSleep"
          /\ Commit(l, Resume(SleepExit(Cur(l, "sleepTimeout")), timedOut))

\* sleep's 100 ms checkStop callback seeing shouldStop: clearTimeout, resolve
\* (seeing it clear, it does nothing)
SleepCheckStop(l) ==
    /\ loops[l].pc \in DelayPcs
    /\ shouldStop
    /\ \E timedOut \in BOOLEAN :
          /\ timedOut => loops[l].pc = "pollSleep"
          /\ Commit(l, Resume(SleepExit(Cur(l, "sleepInterrupted")), timedOut))

\* the usage report answers or fails (the catch logs); performSwap returns
Report(l) ==
    /\ loops[l].pc = "report"
    /\ \E r \in {"ok", "fail"} :
          Commit(l, SwapEnded(Cur(l, "step"),
                              IF r = "ok" THEN "reported" ELSE "reportFailed"))

\* await updateWallets() in the swap's finally
UpdateWallets(l) ==
    /\ loops[l].pc = "updateWallets"
    /\ Commit(l, AfterUpdateWallets(Cur(l, "step")))

\* an external transaction of the account raises its count on the chain
ChainAdvance(a) ==
    /\ chainCount[a] < MaxNonce
    /\ chainCount' = [chainCount EXCEPT ![a] = @ + 1]
    /\ lastOp' = "chain"
    /\ UNCHANGED <<accounts, activityRunning, isCycleRunning, shouldStop,
                   dailyActivityInterval, lostTimers, activeProcesses, menuItems,
                   stopChecks, finallyChecks, loops, nonceTracker, pendingSeen, issuedHigh, call>>

\* one event of invocation l
LoopEvent(l, tracked) ==
    \/ SleepTimeout(l)
    \/ SleepCheckStop(l)
    \/ CheckInStatus(l)
    \/ CheckInPost(l)
    \/ BalanceOf(l)
    \/ Quote(l)
    \/ FeeData(l)
    \/ Allowance(l)
    \/ ApproveCount(l, tracked)
    \/ ApproveSend(l, tracked)
    \/ ApproveWait(l)
    \/ GasBalance(l)
    \/ SwapNonce(l, tracked)
    \/ SendTx(l, tracked)
    \/ Receipt(l)
    \/ Report(l)
    \/ UpdateWallets(l)

Handlers(S) ==
    \/ StartActivity(S)
    \/ StopActivity(FALSE)
    \/ TimerFire(S)
    \/ StopCheckTick
    \/ FinallyCheckTick

Next ==
    \/ Handlers(LoopIds)
    \/ \E l \in LoopIds : LoopEvent(l, FALSE)

InitLife ==
    /\ Init
    /\ chainCount = [a \in AccountIds |-> 0]

Spec == InitLife /\ [][Next]_vars

NonceNext ==
    \/ StartActivity({1})
    \/ StopActivity(FALSE)
    \/ TimerFire({1})
    \/ StopCheckTick
    \/ LoopEvent(1, TRUE)
    \/ \E a \in AccountIds : ChainAdvance(a)

NonceSpec == Init /\ [][NonceNext]_vars

\* the lifecycle with every key well-formed and the stop history kept
HistoryInit ==
    /\ InitLife
    /\ accounts = [a \in {0} |-> "ok"]

HistoryNext ==
    \/ StartActivity(LoopIds)
    \/ StopActivity(TRUE)
    \/ TimerFire(LoopIds)
    \/ StopCheckTick
    \/ FinallyCheckTick
    \/ \E l \in LoopIds : LoopEvent(l, FALSE)

HistorySpec == HistoryInit /\ [][HistoryNext]_vars


\* ------------------------------------------------- single calls of functions
\* One call of getNextNonce, getFeeParams or monitorTransaction, followed from
\* its entry to its return, with its inputs drawn in the initial state; the
\* configuration form; and the sleep() calls of one caller with their timers.

\* the caches and counts a call of getNextNonce may find
CachedValues == NoRecord .. MaxNonce

NonceCalls ==
    [fn : {"getNextNonce"}, pc : {"entry"}, acct : AccountIds, form : {"checksum", "lower"},
     valid : BOOLEAN, before : [Keys -> CachedValues], queried : {FALSE},
     result : {"none"}, value : {NoRecord}]

FnIdle ==
    /\ accounts = [a \in AccountIds |-> "ok"]
    /\ activityRunning = FALSE
    /\ isCycleRunning = FALSE
    /\ dailyActivityInterval = "null"
    /\ lostTimers = 0
    /\ activeProcesses = 0
    /\ menuItems = "Start"
    /\ stopChecks = 0
    /\ finallyChecks = 0
    /\ loops = [l \in LoopIds |-> IdleLoop]
    /\ pendingSeen = [k \in Keys |-> NoRecord]
    /\ issuedHigh = [k \in Keys |-> NoRecord]
    /\ lastOp = "init"

\* what a followed call leaves alone
FnFrame ==
    UNCHANGED <<accounts, activityRunning, isCycleRunning, shouldStop,
                dailyActivityInterval, lostTimers, menuItems, stopChecks, finallyChecks,
                loops, chainCount, pendingSeen, issuedHigh, lastOp>>

\* getNextNonce from its entry to its await
FnNonceEntry ==
    /\ call.fn = "getNextNonce" /\ call.pc = "entry"
    /\ LET gate == NonceGate(shouldStop, call.valid)
       IN  call' = IF gate = "query"
                   THEN [call EXCEPT !.pc = "count", !.queried = TRUE]
                   ELSE [call EXCEPT !.pc = "done", !.result = gate]
    /\ UNCHANGED <<nonceTracker, activeProcesses>>
    /\ FnFrame

\* provider.getTransactionCount answers or fails; the catch logs and rethrows
FnNonceCount ==
    /\ call.fn = "getNextNonce" /\ call.pc = "count"
    /\ \E r \in {"throw", "ok"} :
          LET key == <<call.acct, call.form>>
              nextNonce == NextNonce(nonceTracker[key], chainCount[call.acct])
          IN  IF r = "ok"
              THEN /\ nonceTracker' = [nonceTracker EXCEPT ![key] = nextNonce]
                   /\ call' = [call EXCEPT !.pc = "done", !.result = "ok",
                                           !.value = nextNonce]
              ELSE /\ call' = [call EXCEPT !.pc = "done", !.result = "readError"]
                   /\ UNCHANGED nonceTracker
    /\ UNCHANGED activeProcesses
    /\ FnFrame

FnInitNonce ==
    /\ FnIdle
    /\ shouldStop \in BOOLEAN
    /\ chainCount \in [AccountIds -> 0 .. MaxNonce]
    /\ call \in NonceCalls
    /\ nonceTracker = call.before

\* ------------------------------------------------------------ getFeeParams
\* largest fee figure, in gwei
MaxFee == 2

FeeFigures == Absent .. MaxFee

\* how JavaScript's && and || read a BigInt or null: null and 0n are falsy
Truthy(x) == x # Absent /\ x # 0

\* ethers.parseUnits("1", "gwei"), fees being counted in gwei
OneGwei == 1

\* const isDebug = false
IsDebug == FALSE

\* addLog(message, type) pushes an entry unless type is "debug" and !isDebug
LogEntries(type) == IF type = "debug" /\ ~IsDebug THEN 0 ELSE 1

NoParams == [type |-> Absent, maxFeePerGas |-> Absent, maxPriorityFeePerGas |-> Absent,
             gasPrice |-> Absent]

\* getFeeParams, the try block after provider.getFeeData() answered
FeeParams(feeData) ==
    IF Truthy(feeData.maxFeePerGas) /\ Truthy(feeData.maxPriorityFeePerGas)
    THEN [NoParams EXCEPT !.type = 2, !.maxFeePerGas = feeData.maxFeePerGas,
                          !.maxPriorityFeePerGas = feeData.maxPriorityFeePerGas]
    ELSE [NoParams EXCEPT !.type = 0,
                          !.gasPrice = IF Truthy(feeData.gasPrice) THEN feeData.gasPrice
                                       ELSE OneGwei]

\* getFeeParams, the catch block's return value
DefaultFeeParams == [NoParams EXCEPT !.type = 0, !.gasPrice = OneGwei]

FeeCalls ==
    [fn : {"getFeeParams"}, pc : {"feeData"}, failed : BOOLEAN,
     feeData : [maxFeePerGas : FeeFigures, maxPriorityFeePerGas : FeeFigures,
                gasPrice : FeeFigures],
     logs : {0}, result : {NoParams}]

\* provider.getFeeData() answers with call.feeData, or fails when call.failed
FnFeeData ==
    /\ call.fn = "getFeeParams" /\ call.pc = "feeData"
    /\ call' = IF call.failed
               THEN [call EXCEPT !.pc = "done", !.result = DefaultFeeParams,
                                 !.logs = @ + LogEntries("debug")]
               ELSE [call EXCEPT !.pc = "done", !.result = FeeParams(call.feeData)]
    /\ UNCHANGED <<nonceTracker, activeProcesses>>
    /\ FnFrame

FnInitFee ==
    /\ FnIdle
    /\ shouldStop = FALSE
    /\ chainCount = [a \in AccountIds |-> 0]
    /\ nonceTracker = EmptyTracker
    /\ call \in FeeCalls

\* ------------------------------------------------------ monitorTransaction
\* await sleep(5000)
PollIntervalMs == 5000

\* how long one provider.getTransactionReceipt may take, in ms
PollLatencies == {0, 200}

\* the timeoutMs of a call: a short one, and performSwap's 120000
Timeouts == {1000, 120000}

MonitorCalls ==
    [fn : {"monitorTransaction"}, pc : {"entry"}, timeoutMs : Timeouts, startTime : {0},
     now : {0}, result : {"none"}]

\* the top of the while loop: elapsed = Date.now() - startTime against timeoutMs,
\* then the receipt query is sent
MonitorTop(m) ==
    IF m.now - m.startTime > m.timeoutMs
    THEN [m EXCEPT !.pc = "done", !.result = "timeout"]
    ELSE [m EXCEPT !.pc = "poll"]

FnMonitorEntry ==
    /\ call.fn = "monitorTransaction" /\ call.pc = "entry"
    /\ call' = MonitorTop(call)
    /\ UNCHANGED <<nonceTracker, activeProcesses>>
    /\ FnFrame

\* provider.getTransactionReceipt answers after some latency: it throws (nothing
\* in monitorTransaction catches), returns a receipt with a block number, or
\* returns none, and then sleep(5000) suspends unless shouldStop is set
FnMonitorPoll ==
    /\ call.fn = "monitorTransaction" /\ call.pc = "poll"
    /\ \E latency \in PollLatencies, r \in {"throw", "receipt", "none"} :
          LET m == [call EXCEPT !.now = @ + latency]
          IN  CASE r = "throw" ->
                     /\ call' = [m EXCEPT !.pc = "done", !.result = "pollError"]
                     /\ UNCHANGED activeProcesses
                [] r = "receipt" ->
                     /\ call' = [m EXCEPT !.pc = "done", !.result = "receipt"]
                     /\ UNCHANGED activeProcesses
                [] r = "none" ->
                     IF shouldStop
                     THEN /\ call' = MonitorTop(m)
                          /\ UNCHANGED activeProcesses
                     ELSE /\ call' = [m EXCEPT !.pc = "sleep"]
                          /\ activeProcesses' = activeProcesses + 1
    /\ UNCHANGED nonceTracker
    /\ FnFrame

\* sleep's timer fires after 5000 ms and the loop goes round
FnMonitorSleep ==
    /\ call.fn = "monitorTransaction" /\ call.pc = "sleep"
    /\ call' = MonitorTop([call EXCEPT !.now = @ + PollIntervalMs])
    /\ activeProcesses' = Max(0, activeProcesses - 1)
    /\ UNCHANGED nonceTracker
    /\ FnFrame

FnInitMonitor ==
    /\ FnIdle
    /\ shouldStop \in BOOLEAN
    /\ chainCount = [a \in AccountIds |-> 0]
    /\ nonceTracker = EmptyTracker
    /\ call \in MonitorCalls

\* ------------------------------------------- the form, saveConfig, loadConfig
\* form submissions followed before the program is started again
MaxSubmits == 2

\* JavaScript numbers are counted in tenths (1.1 is 11); two of them are not finite
NaN == -2

Infinity == 1000

IsNaN(x) == x = NaN

\* let dailyActivityConfig = {...}, the two ranges flattened
DefaultConfig == [swapRepetitions |-> 10, usdcMin |-> 10, usdcMax |-> 11,
                  usdtMin |-> 10, usdtMax |-> 14, loopHours |-> 240]

ConfigTypes == {"swapRepetitions", "usdcSwapRange", "usdtSwapRange", "loopHours"}

RangeTypes == {"usdcSwapRange", "usdtSwapRange"}

\* what parseInt and parseFloat make of the text typed: parseInt never returns
\* Infinity, parseFloat does ("Infinity", "1e999")
ParsedInts == {NaN, 0, 10, 20}

ParsedFloats == {NaN, 0, 10, 20, Infinity}

Parsed(configType) ==
    IF configType \in RangeTypes THEN ParsedFloats ELSE ParsedInts

\* the submit handler's validation: every early return is a rejection
FormAccepts(configType, value, maxValue) ==
    /\ configType \in RangeTypes => ~(IsNaN(maxValue) \/ maxValue <= 0)
    /\ ~(IsNaN(value) \/ value <= 0)
    /\ configType = "loopHours" => ~(value < 10)
    /\ configType \in RangeTypes => ~(value > maxValue)

\* the submit handler's assignments (Math.floor of a parseInt result is itself)
FormAssign(config, configType, value, maxValue) ==
    CASE configType = "swapRepetitions" -> [config EXCEPT !.swapRepetitions = value]
      [] configType = "usdcSwapRange" -> [config EXCEPT !.usdcMin = value, !.usdcMax = maxValue]
      [] configType = "usdtSwapRange" -> [config EXCEPT !.usdtMin = value, !.usdtMax = maxValue]
      [] configType = "loopHours" -> [config EXCEPT !.loopHours = value]

\* JSON.stringify writes a number that is not finite as null
JsonNumber(x) == IF IsNaN(x) \/ x = Infinity THEN Absent ELSE x

\* saveConfig's JSON.stringify(dailyActivityConfig, null, 2), read back by JSON.parse
Stringify(config) == [f \in DOMAIN config |-> JsonNumber(config[f])]

\* Number(v): null is 0
NumberOf(v) == IF v = Absent THEN 0 ELSE v

\* a || b on numbers: 0 and NaN are falsy
OrElse(a, b) == IF a = 0 \/ IsNaN(a) THEN b ELSE a

\* loadConfig: each field is Number(config.field) || its literal, the literals
\* being the defaults; without a file the configuration stays as it is
LoadConfig(config, hasFile, file) ==
    IF hasFile
    THEN [f \in DOMAIN config |-> OrElse(NumberOf(file[f]), DefaultConfig[f])]
    ELSE config

\* saveConfig: fs.writeFileSync succeeds or throws (the catch logs)
SaveConfig(m, written) ==
    [m EXCEPT !.written = written,
              !.hasFile = @ \/ written,
              !.file = IF written THEN Stringify(m.config) ELSE @]

ConfigCall ==
    [fn |-> "config", pc |-> "form", config |-> DefaultConfig, hasFile |-> FALSE,
     file |-> Stringify(DefaultConfig), written |-> FALSE, submits |-> 0,
     saved |-> DefaultConfig]

\* configForm.on("submit"): an accepted value is assigned and saveConfig runs
FnConfigSubmit ==
    /\ call.fn = "config" /\ call.pc = "form"
    /\ call.submits < MaxSubmits
    /\ \E configType \in ConfigTypes, written \in BOOLEAN :
          \E value \in Parsed(configType), maxValue \in ParsedFloats :
              /\ FormAccepts(configType, value, maxValue)
              /\ LET config == FormAssign(call.config, configType, value, maxValue)
                 IN  call' = SaveConfig([call EXCEPT !.config = config,
                                                     !.saved = config,
                                                     !.submits = @ + 1], written)
    /\ UNCHANGED <<nonceTracker, activeProcesses>>
    /\ FnFrame

\* the program is started again: dailyActivityConfig is the default and
\* loadConfig runs
FnConfigLoad ==
    /\ call.fn = "config" /\ call.pc = "form"
    /\ call.submits > 0
    /\ call' = [call EXCEPT !.pc = "loaded",
                            !.config = LoadConfig(DefaultConfig, call.hasFile, call.file)]
    /\ UNCHANGED <<nonceTracker, activeProcesses>>
    /\ FnFrame

\* saveConfig and loadConfig once more, on the loaded configuration
FnConfigAgain ==
    /\ call.fn = "config" /\ call.pc = "loaded"
    /\ \E written \in BOOLEAN :
          LET m == SaveConfig([call EXCEPT !.saved = call.config], written)
          IN  call' = [m EXCEPT !.pc = "reloaded",
                                !.config = LoadConfig(DefaultConfig, m.hasFile, m.file)]
    /\ UNCHANGED <<nonceTracker, activeProcesses>>
    /\ FnFrame

FnInitConfig ==
    /\ FnIdle
    /\ shouldStop = FALSE
    /\ chainCount = [a \in AccountIds |-> 0]
    /\ nonceTracker = EmptyTracker
    /\ call = ConfigCall

\* -------------------------------------------------------------------- sleep
\* successive sleep() calls of one caller followed together
MaxSleeps == 2

\* the caller's first sleep(ms) call, before its first statement: no timer of a
\* sleep exists yet.  intervals counts the checkStop intervals neither cleared
\* nor gone, timeout tells whether the suspended call's setTimeout is pending
SleepCall ==
    [fn |-> "sleep", pc |-> "entry", timeout |-> FALSE, intervals |-> 0, calls |-> 1]

\* sleep() calls that have not returned
SuspendedSleeps(m) == IF m.pc = "suspended" THEN 1 ELSE 0

\* what a followed sleep() leaves alone
FnSleepFrame ==
    UNCHANGED <<accounts, activityRunning, isCycleRunning, dailyActivityInterval,
                lostTimers, menuItems, stopChecks, finallyChecks, loops, nonceTracker,
                chainCount, pendingSeen, issuedHigh, lastOp>>

\* sleep from its entry to its await: with shouldStop set it returns at once,
\* otherwise activeProcesses++ and setTimeout and setInterval are created
FnSleepEntry ==
    /\ call.fn = "sleep" /\ call.pc = "entry"
    /\ IF shouldStop
       THEN /\ call' = [call EXCEPT !.pc = "done"]
            /\ UNCHANGED activeProcesses
       ELSE /\ call' = [call EXCEPT !.pc = "suspended", !.timeout = TRUE,
                                    !.intervals = @ + 1]
            /\ activeProcesses' = activeProcesses + 1
    /\ UNCHANGED shouldStop
    /\ FnSleepFrame

\* the setTimeout callback: resolve(), nothing else; sleep's finally gives the
\* count back and sleep returns
FnSleepTimeout ==
    /\ call.fn = "sleep" /\ call.pc = "suspended" /\ call.timeout
    /\ call' = [call EXCEPT !.pc = "done", !.timeout = FALSE]
    /\ activeProcesses' = Max(0, activeProcesses - 1)
    /\ UNCHANGED shouldStop
    /\ FnSleepFrame

\* a checkStop callback that sees shouldStop: clearTimeout(timeout),
\* clearInterval(checkStop), resolve().  It is the suspended call's own interval
\* (mine), or one left by a call that has returned, whose resolve does nothing.
\* Seeing shouldStop clear, the callback does nothing
FnSleepCheckStop ==
    /\ call.fn = "sleep" /\ shouldStop
    /\ \E mine \in BOOLEAN :
          /\ IF mine THEN call.pc = "suspended"
             ELSE call.intervals > SuspendedSleeps(call)
          /\ call' = IF mine
                     THEN [call EXCEPT !.pc = "done", !.timeout = FALSE,
                                       !.intervals = @ - 1]
                     ELSE [call EXCEPT !.intervals = @ - 1]
          /\ activeProcesses' = IF mine THEN Max(0, activeProcesses - 1)
                                ELSE activeProcesses
    /\ UNCHANGED shouldStop
    /\ FnSleepFrame

\* menuBox "Stop Activity" while sleeps are followed: shouldStop = true
FnSleepStop ==
    /\ call.fn = "sleep" /\ ~shouldStop
    /\ shouldStop' = TRUE
    /\ UNCHANGED <<call, activeProcesses>>
    /\ FnSleepFrame

\* the caller goes on to its next sleep(ms)
FnSleepAgain ==
    /\ call.fn = "sleep" /\ call.pc = "done"
    /\ call.calls < MaxSleeps
    /\ call' = [call EXCEPT !.pc = "entry", !.calls = @ + 1]
    /\ UNCHANGED <<shouldStop, activeProcesses>>
    /\ FnSleepFrame

FnInitSleep ==
    /\ FnIdle
    /\ shouldStop \in BOOLEAN
    /\ chainCount = [a \in AccountIds |-> 0]
    /\ nonceTracker = EmptyTracker
    /\ call = SleepCall

FnInit == FnInitNonce \/ FnInitFee \/ FnInitMonitor \/ FnInitConfig \/ FnInitSleep

FnNext ==
    \/ FnNonceEntry
    \/ FnNonceCount
    \/ FnFeeData
    \/ FnMonitorEntry
    \/ FnMonitorPoll
    \/ FnMonitorSleep
    \/ FnConfigSubmit
    \/ FnConfigLoad
    \/ FnConfigAgain
    \/ FnSleepEntry
    \/ FnSleepTimeout
    \/ FnSleepCheckStop
    \/ FnSleepStop
    \/ FnSleepAgain

FnSpec == FnInit /\ [][FnNext]_vars

\* ------------------------------------------------------------------ claims
\* updateStatus's text, with Stopping for a set stop flag
RunState ==
    IF shouldStop THEN "Stopping"
    ELSE IF activityRunning THEN "Running"
    ELSE IF isCycleRunning /\ dailyActivityInterval # "null" THEN "WaitingForNextCycle"
    ELSE "Idle"

InFlight == {l \in LoopIds : loops[l].pc # "none"}

Sleeping == {l \in LoopIds : loops[l].pc \in DelayPcs}

TeardownOps == {"stopTeardown", "stopCheckTeardown", "finallyTeardown", "finallyCheckTeardown"}

WaitOps == {"stopCheckWait", "finallyCheckWait"}

\* C1: once a stop request has been finalized (the teardown has cleared shouldStop,
\* activityRunning and isCycleRunning) no runDailyActivity invocation is in flight.
C1_CleanShutdown ==
    (lastOp \in TeardownOps /\ ~shouldStop /\ ~activityRunning /\ ~isCycleRunning)
        => InFlight = {}

\* C2: an invocation that was suspended in a delay of account k when Stop was
\* requested never processes an account after k.
C2_NoLaterAccount ==
    \A l \in LoopIds : loops[l].stopAt # -1 => loops[l].acct <= loops[l].stopAt

\* C3: at most one runDailyActivity invocation is in flight.
C3_SingleLoop == Cardinality(InFlight) <= 1

AllowedTransitions ==
    {<<"Idle", "Running">>, <<"Running", "Stopping">>, <<"Stopping", "Idle">>,
     <<"Running", "WaitingForNextCycle">>, <<"WaitingForNextCycle", "Running">>,
     <<"WaitingForNextCycle", "Stopping">>}

\* C4: every change of RunState is one of the six listed transitions.  The Stop
\* handler that sets and clears shouldStop before it returns counts as
\* X -> Stopping -> Idle.
C4_Transitions ==
    [][RunState' # RunState =>
          \/ <<RunState, RunState'>> \in AllowedTransitions
          \/ /\ lastOp' = "stopTeardown"
             /\ RunState \in {"Running", "WaitingForNextCycle"}
             /\ RunState' = "Idle"]_vars

HandlerTeardownOps == {"stopTeardown", "stopCheckTeardown", "finallyCheckTeardown"}

\* C5: every teardown of a stop request runs with activeProcesses = 0 (the Stop
\* handler and the two stop-check timers read it as it stands; the finally block
\* reads it after the sleep that resumed it has left, so no sleep is suspended and
\* the counter is 0 when the teardown has run), and a stop-check tick that finds
\* activeProcesses nonzero changes no run-state flag.
C5_TeardownDrained ==
    [][/\ lastOp' \in HandlerTeardownOps => activeProcesses = 0
       /\ lastOp' \in TeardownOps => (activeProcesses' = 0 /\ Sleeping' = {})
       /\ (shouldStop /\ ~shouldStop' /\ ~activityRunning' /\ ~isCycleRunning')
             => (activeProcesses' = 0 /\ Sleeping' = {})
       /\ lastOp' \in WaitOps =>
             /\ activeProcesses > 0
             /\ UNCHANGED <<activityRunning, isCycleRunning, shouldStop, activeProcesses,
                            dailyActivityInterval>>]_vars

C5_Witness == lastOp = "stopCheckTeardown" /\ RunState = "Idle" /\ activeProcesses = 0

\* C6: activeProcesses is the number of sleep() calls currently suspended.
C6_CounterMatchesSleeps ==
    /\ activeProcesses >= 0
    /\ activeProcesses = Cardinality(Sleeping)

C6_Witness == activeProcesses = 1 /\ shouldStop /\ Cardinality(Sleeping) = 1

\* C7: right after the Stop Activity handler has run, no next-cycle timer is pending.
C7_NoTimerAfterStop ==
    lastOp \in {"stopTeardown", "stopRequested"}
        => (dailyActivityInterval # "pending" /\ lostTimers = 0)


\* invocation l's getNextNonce returns in this step, for the key of this form
AllocStep(l, form) ==
    IF form = "lower"
    THEN loops[l].pc = "swapNonce" /\ loops'[l].pc = "sendTx"
    ELSE loops[l].pc = "approveCount" /\ loops'[l].pc = "approveSend"

Forms == {"checksum", "lower"}

\* C8: a successful getNextNonce on a key whose record was issued at the same
\* pending count returns the previous value plus exactly 1.
C8_StrictlyIncreasing ==
    [][\A l \in LoopIds, form \in Forms :
          LET k == <<loops[l].acct, form>>
          IN  (/\ AllocStep(l, form)
               /\ nonceTracker[k] # NoRecord
               /\ pendingSeen[k] = chainCount[loops[l].acct])
                  => loops'[l].nonce = nonceTracker[k] + 1]_vars

\* C9: a successful getNextNonce returns max(p, last + 1), last being the cached
\* value or p - 1 when no record is cached, and caches the returned value.
C9_MaxRule ==
    [][\A l \in LoopIds, form \in Forms :
          LET k == <<loops[l].acct, form>>
              p == chainCount[loops[l].acct]
              last == IF nonceTracker[k] = NoRecord THEN p - 1 ELSE nonceTracker[k]
          IN  AllocStep(l, form)
                  => /\ loops'[l].nonce = Max(p, last + 1)
                     /\ nonceTracker'[k] = loops'[l].nonce]_vars

\* C10: a swap submission failing with a nonce-related error deletes the record of
\* performSwap's key; the record stays absent until getNextNonce runs for that key
\* again, and that call returns the chain's pending count as it is then.
C10_InvalidatedOnNonceError ==
    [][/\ \A l \in LoopIds :
             LET k == <<loops[l].acct, "lower">>
             IN  /\ (loops[l].pc = "sendTx" /\ lastOp' = "sendNonceErr")
                        => nonceTracker'[k] = NoRecord
                 /\ (AllocStep(l, "lower") /\ nonceTracker[k] = NoRecord)
                        => (/\ loops'[l].nonce = chainCount[loops[l].acct]
                            /\ nonceTracker'[k] = chainCount[loops[l].acct])
       /\ \A k \in Keys :
             (nonceTracker[k] = NoRecord /\ nonceTracker'[k] # NoRecord)
                 => \E l \in LoopIds, form \in Forms :
                        AllocStep(l, form) /\ k = <<loops[l].acct, form>>]_vars

C10_Witness ==
    /\ lastOp = "sendNonceErr"
    /\ loops[1].pc = "updateWallets"
    /\ nonceTracker[<<loops[1].acct, "lower">>] = NoRecord
    /\ chainCount[loops[1].acct] >= 1

\* C11: within one run the values stored under a key (and returned by getNextNonce)
\* never decrease: a stored value is never below the highest value issued for the
\* key since the run began.
C11_NeverDecreases ==
    [][\A k \in Keys :
          nonceTracker'[k] # NoRecord => nonceTracker'[k] >= issuedHigh[k]]_vars

\* Two invocations in flight with nonce values recorded: one account, user
\* requests only (no timer fires), the chain's count moved by the bot alone, and
\* each swap followed up to its submission (receipt queries stay unanswered).
SharedInit ==
    /\ Init
    /\ accounts = [a \in {0} |-> "ok"]
    /\ chainCount = [a \in AccountIds |-> 1]

SharedEvent(l) ==
    \/ SleepTimeout(l)
    \/ SleepCheckStop(l)
    \/ CheckInStatus(l)
    \/ CheckInPost(l)
    \/ BalanceOf(l)
    \/ Quote(l)
    \/ FeeData(l)
    \/ Allowance(l)
    \/ ApproveCount(l, TRUE)
    \/ ApproveSend(l, TRUE)
    \/ GasBalance(l)
    \/ SwapNonce(l, TRUE)
    \/ SendTx(l, TRUE)
    \/ UpdateWallets(l)

SharedNext ==
    \/ StartActivity(LoopIds)
    \/ StopActivity(FALSE)
    \/ \E l \in LoopIds : SharedEvent(l)

SharedSpec == SharedInit /\ [][SharedNext]_vars

\* C12: the step in which a runDailyActivity invocation ends leaves nonceTracker
\* empty, and the first getNextNonce of a cycle for a key (an account's first swap
\* attempt makes the cycle's first call for the account's keys) returns the
\* chain's pending count.
C12_CacheClearedAtCycleEnd ==
    [][\A l \in LoopIds :
          /\ (loops[l].pc # "none" /\ loops'[l].pc = "none")
                 => nonceTracker' = EmptyTracker
          /\ \A form \in Forms :
                 (AllocStep(l, form) /\ loops[l].swap = 0)
                     => loops'[l].nonce = chainCount[loops[l].acct]]_vars

\* C13: a getNextNonce entered with shouldStop set fails with the stopped error
\* and never queries the chain; entered with shouldStop clear and a malformed
\* address it fails with the invalid-address error; and as long as it has not
\* returned a nonce (it is still running, or it failed in either way or on the
\* pending-count read) every cached record is as it was at entry.
C13_NonceErrorsLeaveCache ==
    call.fn = "getNextNonce" =>
        /\ shouldStop => ~call.queried
        /\ (call.pc = "done" /\ shouldStop) => call.result = "stopped"
        /\ (call.pc = "done" /\ ~shouldStop /\ ~call.valid)
              => (call.result = "invalidAddress" /\ ~call.queried)
        /\ call.result \in {"none", "stopped", "invalidAddress", "readError"}
              => nonceTracker = call.before
        /\ call.result = "readError" => (call.queried /\ call.valid /\ ~shouldStop)

C13_Witness ==
    /\ call.fn = "getNextNonce" /\ call.pc = "done"
    /\ call.result \in {"stopped", "invalidAddress", "readError"}
    /\ nonceTracker[<<call.acct, call.form>>] # NoRecord

\* C14: getFeeParams returns scheme 2 with the estimate's max fee and priority fee
\* exactly when the query answered and carries both figures; otherwise scheme 0
\* with the legacy gas price, or 1 gwei when that figure is missing or the query
\* failed; and a failed query appends one entry to the log.
C14_FeeParams ==
    (call.fn = "getFeeParams" /\ call.pc = "done") =>
        LET f == call.feeData
            both == /\ ~call.failed
                    /\ f.maxFeePerGas # Absent
                    /\ f.maxPriorityFeePerGas # Absent
        IN  /\ both => call.result = [NoParams EXCEPT
                                         !.type = 2,
                                         !.maxFeePerGas = f.maxFeePerGas,
                                         !.maxPriorityFeePerGas = f.maxPriorityFeePerGas]
            /\ ~both => call.result = [NoParams EXCEPT
                                          !.type = 0,
                                          !.gasPrice = IF call.failed \/ f.gasPrice = Absent
                                                       THEN OneGwei ELSE f.gasPrice]
            /\ call.failed => call.logs = 1

\* C15: a monitorTransaction call that gets no receipt is over, with the timeout
\* error, no later than timeoutMs plus 200 ms after its entry (1000-1200 ms for
\* timeoutMs = 1000): while it runs, and when it fails, the time since entry is
\* within that bound.
C15_TimeoutBound ==
    (call.fn = "monitorTransaction" /\ call.result \in {"none", "timeout"})
        => call.now - call.startTime <= call.timeoutMs + 200

\* C16: monitorTransaction ends only with a receipt or with the timeout error; a
\* receipt poll that raises is not the end of the call.
C16_PollErrorNotFatal ==
    call.fn = "monitorTransaction" => call.result \in {"none", "receipt", "timeout"}

\* C17: a performSwap that finds the token balance below the amount ends there:
\* the next thing awaited is the scheduler's updateWallets, so no quote, approval,
\* getNextNonce or submission was started, and nonceTracker is unchanged.
C17_InsufficientBalanceAborts ==
    [][\A l \in LoopIds :
          (/\ loops[l].pc = "balanceOf"
           /\ loops'[l].pc # "balanceOf"
           /\ lastOp' = "insufficientBalance")
              => /\ loops'[l].pc = "updateWallets"
                 /\ loops'[l].nonce = NoRecord
                 /\ nonceTracker' = nonceTracker
                 /\ chainCount' = chainCount]_vars

C17_Witness ==
    /\ lastOp = "insufficientBalance"
    /\ loops[1].pc = "updateWallets"
    /\ loops[1].swap > 0
    /\ nonceTracker[<<loops[1].acct, "lower">>] # NoRecord

\* C18: performSwap posts the usage report exactly when monitorTransaction returned
\* a receipt that has a hash and a status other than 0; after a confirmation
\* timeout, a receipt without hash or a revert it raises without reporting; and
\* once the report is posted it returns, whether the post succeeds or fails.
C18_ReportOnlyAfterValidReceipt ==
    [][\A l \in LoopIds :
          loops'[l].pc # loops[l].pc =>
              /\ loops'[l].pc = "report"
                    <=> (loops[l].pc = "receipt" /\ lastOp' = "receiptValid")
              /\ (/\ loops[l].pc \in {"receipt", "pollSleep"}
                  /\ lastOp' \in {"confirmTimeout", "receiptInvalid", "receiptReverted"})
                    => loops'[l].pc = "updateWallets"
              /\ loops[l].pc = "report"
                    => (/\ loops'[l].pc = "updateWallets"
                        /\ lastOp' \in {"reported", "reportFailed"})]_vars

C18_Witness ==
    /\ lastOp = "reportFailed"
    /\ \E l \in LoopIds : loops[l].pc = "updateWallets"

C20_Sequential ==
    [][\A l \in LoopIds :
          loops'[l].pc # loops[l].pc =>
              /\ loops'[l].pc = "checkInStatus" =>
                    /\ \A k \in LoopIds \ {l} : loops[k].pc = "none"
                    /\ IF loops[l].pc = "none" THEN loops'[l].acct = 0
                       ELSE /\ loops'[l].acct = loops[l].acct + 1
                            /\ loops[l].pc \in {"updateWallets", "acctDelay"}
              /\ loops'[l].pc = "balanceOf" =>
                    /\ \A k \in LoopIds \ {l} : loops[k].pc = "none"
                    /\ loops'[l].acct = loops[l].acct
                    /\ IF loops[l].pc \in {"checkInStatus", "checkInPost"}
                       THEN loops'[l].swap = 0
                       ELSE /\ loops'[l].swap = loops[l].swap + 1
                            /\ loops[l].pc \in {"updateWallets", "swapDelay"}]_vars

\* the positions of an invocation inside one performSwap call
SwapPcs == {"balanceOf", "quote", "feeData", "allowance", "approveCount", "approveSend",
            "approveWait", "gasBalance", "swapNonce", "sendTx", "receipt", "pollSleep",
            "report"}

\* C21: swap attempt k of an account (k = 0 .. swapRepetitions - 1) runs in
\* direction swapDirections[k mod 2], for every account and whatever the earlier
\* attempts came to.
C21_DirectionsAlternate ==
    \A l \in LoopIds :
        loops[l].pc \in SwapPcs
            => loops[l].direction = SwapDirections[(loops[l].swap % 2) + 1]

C21_Witness ==
    /\ lastOp = "insufficientBalance"
    /\ \E l \in LoopIds :
          /\ loops[l].acct = 1 /\ loops[l].swap = 1
          /\ loops[l].direction = "USDT_USDC"

\* the positions of an invocation between two swap attempts of one account
AttemptPcs == SwapPcs \cup {"updateWallets", "swapDelay"}

\* C22: while no stop is requested, the end of a performSwap call, by return or
\* by any error at any step, leads to updateWallets for the same attempt; after it
\* attempt k < swapRepetitions - 1 is followed by the delay and attempt k + 1; and
\* the invocation leaves an account's attempts only after attempt
\* swapRepetitions - 1.
C22_SwapFailuresNotFatal ==
    [][\A l \in LoopIds :
          (loops'[l].pc # loops[l].pc /\ ~shouldStop) =>
              /\ (loops[l].pc \in SwapPcs /\ loops'[l].pc \notin SwapPcs)
                    => (/\ loops'[l].pc = "updateWallets"
                        /\ loops'[l].acct = loops[l].acct
                        /\ loops'[l].swap = loops[l].swap)
              /\ (loops[l].pc = "updateWallets" /\ loops[l].swap < SwapRepetitions - 1)
                    => (/\ loops'[l].pc = "swapDelay"
                        /\ loops'[l].acct = loops[l].acct
                        /\ loops'[l].swap = loops[l].swap)
              /\ loops[l].pc = "swapDelay"
                    => (/\ loops'[l].pc = "balanceOf"
                        /\ loops'[l].acct = loops[l].acct
                        /\ loops'[l].swap = loops[l].swap + 1)
              /\ (loops[l].pc \in AttemptPcs /\ loops'[l].pc \notin AttemptPcs)
                    => (/\ loops[l].pc = "updateWallets"
                        /\ loops[l].swap = SwapRepetitions - 1)]_vars

C22_Witness ==
    /\ lastOp = "pollFailed"
    /\ ~shouldStop
    /\ \E l \in LoopIds :
          /\ loops[l].pc = "updateWallets"
          /\ loops[l].acct = 1
          /\ loops[l].swap = SwapRepetitions - 1

\* C23: a cycle that ends with shouldStop clear has gone through every account
\* (it ends from the last account's position) and has scheduled the next cycle,
\* whatever happened while an account was processed.
C23_AccountFailureIsolated ==
    [][lastOp' \in {"finallyDone", "finallyFailed"} =>
          /\ dailyActivityInterval' = "pending"
          /\ \E l \in LoopIds :
                /\ loops[l].pc # "none" /\ loops'[l].pc = "none"
                /\ loops[l].acct = NumAccounts - 1]_vars

\* C24: when an invocation of runDailyActivity ends and the Stop handler did not
\* run while it was in flight, the next-cycle timer is pending and RunState is
\* WaitingForNextCycle.
C24_NextCycleScheduled ==
    [][\A l \in LoopIds :
          (loops[l].pc # "none" /\ loops'[l].pc = "none" /\ ~loops[l].stopSeen)
              => (/\ dailyActivityInterval' = "pending"
                  /\ RunState' = "WaitingForNextCycle")]_vars

\* C25: a configuration the form accepted and saveConfig wrote is, after
\* loadConfig, exactly the configuration that was saved; and saving and loading
\* once more leaves it as the first load made it.
C25_ConfigRoundTrip ==
    (call.fn = "config" /\ call.written /\ call.pc \in {"loaded", "reloaded"})
        => call.config = call.saved

\* C26: an approval submission failing with a nonce-related error deletes the
\* record of the key its nonce was allocated under.
C26_ApprovalNonceErrorInvalidates ==
    [][\A l \in LoopIds :
          (loops[l].pc = "approveSend" /\ lastOp' = "approveNonceErr")
              => nonceTracker'[<<loops[l].acct, "checksum">>] = NoRecord]_vars

\* the positions performSwap can come from when it reaches a position
CameFrom(pc) ==
    CASE pc = "quote" -> {"balanceOf"}
      [] pc = "feeData" -> {"quote"}
      [] pc = "allowance" -> {"feeData"}
      [] pc = "approveCount" -> {"allowance"}
      [] pc = "approveSend" -> {"approveCount"}
      [] pc = "approveWait" -> {"approveSend"}
      [] pc = "gasBalance" -> {"allowance", "approveWait"}
      [] pc = "swapNonce" -> {"gasBalance"}
      [] pc = "sendTx" -> {"swapNonce"}

\* C27: within one attempt performSwap reaches the submission of the swap only
\* through, in this order, the balance check, the quote, the fee parameters, the
\* allowance read with (when the allowance is short) the approval's nonce, its
\* submission and its confirmation, the native-balance check and the swap's
\* nonce; the allowance read leads straight to the native-balance check only
\* when the allowance suffices; and a failed native-balance check ends the
\* attempt with no nonce allocated and nonceTracker unchanged.
C27_SwapPipelineOrder ==
    [][\A l \in LoopIds :
          loops'[l].pc # loops[l].pc =>
              /\ loops'[l].pc \in {"quote", "feeData", "allowance", "approveCount",
                                   "approveSend", "approveWait", "gasBalance",
                                   "swapNonce", "sendTx"}
                    => (/\ loops[l].pc \in CameFrom(loops'[l].pc)
                        /\ loops'[l].acct = loops[l].acct
                        /\ loops'[l].swap = loops[l].swap)
              /\ (loops[l].pc = "allowance" /\ loops'[l].pc = "gasBalance")
                    => lastOp' = "allowanceEnough"
              /\ (loops[l].pc = "gasBalance" /\ lastOp' = "insufficientGas")
                    => (/\ loops'[l].pc = "updateWallets"
                        /\ loops'[l].nonce = NoRecord
                        /\ nonceTracker' = nonceTracker
                        /\ chainCount' = chainCount)]_vars

C27_Witness ==
    /\ lastOp = "insufficientGas"
    /\ loops[1].pc = "updateWallets"
    /\ nonceTracker[<<loops[1].acct, "checksum">>] # NoRecord
    /\ nonceTracker[<<loops[1].acct, "lower">>] = NoRecord

SchedulerDelays == {"swapDelay", "acctDelay"}

\* C28: with shouldStop clear, the end of an attempt (updateWallets returning) is
\* followed by the inter-swap delay unless the attempt is the account's last, and
\* the last attempt by the inter-account delay unless the account is the last;
\* and an invocation that was in flight when the Stop handler ran starts no
\* inter-swap or inter-account delay afterwards.
C28_Delays ==
    [][\A l \in LoopIds :
          loops'[l].pc # loops[l].pc =>
              /\ (loops[l].pc = "updateWallets" /\ ~shouldStop) =>
                    IF loops[l].swap < SwapRepetitions - 1
                    THEN loops'[l].pc = "swapDelay"
                    ELSE IF loops[l].acct < NumAccounts - 1
                         THEN loops'[l].pc = "acctDelay"
                         ELSE loops'[l].pc \notin SchedulerDelays
              /\ loops'[l].pc \in SchedulerDelays => ~loops[l].stopSeen]_vars

\* C29: the nonces allocated for one account, for its approvals and for its
\* swaps, are tracked in one record: nonceTracker never holds records under two
\* keys of the same account.
C29_OneRecordPerAccount ==
    \A a \in AccountIds :
        Cardinality({form \in Forms : nonceTracker[<<a, form>>] # NoRecord}) <= 1

\* C30: the nonce getNextNonce returns for a submission (the approval's or the
\* swap's, sent as soon as the nonce is returned) is the account's transaction
\* count on the chain at that moment.
C30_NoNonceGap ==
    [][\A l \in LoopIds, form \in Forms :
          AllocStep(l, form) => loops'[l].nonce = chainCount[loops[l].acct]]_vars

\* C31: whenever the status is WaitingForNextCycle a next-cycle timer is pending
\* (the one dailyActivityInterval refers to, or one whose handle was overwritten).
C31_WaitingHasTimer ==
    RunState = "WaitingForNextCycle"
        => (dailyActivityInterval = "pending" \/ lostTimers > 0)

\* C32: a tick of the Stop handler's 1 s stop-check timer that finds its stop request
\* already finalized (shouldStop cleared again) leaves the run-state flags as they are.
C32_StaleStopCheck ==
    [][(lastOp' = "stopCheckTeardown" /\ ~shouldStop)
           => UNCHANGED <<activityRunning, isCycleRunning, shouldStop, activeProcesses>>]_vars

\* C33: the live stop-check intervals of sleep() calls are never more than the
\* sleep() calls still suspended: a returned sleep leaves no interval behind.
C33_NoLeakedInterval ==
    call.fn = "sleep" => call.intervals <= SuspendedSleeps(call)

=============================================================================
